---- MODULE Spec2Model ----
(***************************************************************************)
(* Human relay provider (src/api/providers/human-relay.ts).                *)
(*                                                                         *)
(* HumanRelayHandler.createMessage / completePrompt copy a prompt to the   *)
(* clipboard and await showHumanRelayDialog, whose promise is settled by   *)
(* the callback registered under the request id (structured dialog) or by  *)
(* the input box offered in the modal information message (fallback).      *)
(* The command registry, the panel and the webview dialog live in the      *)
(* host; they are modelled from their interface.                           *)
(***************************************************************************)
EXTENDS Integers, Sequences, FiniteSets, TLC

(* ------------------------------ bounds --------------------------------- *)

\* Number of relay calls made during one run of Spec; a run of OverlapSpec
\* makes one more.
NumReq == 1

\* Largest reading of Date.now() in a run.
MaxClock == 2

Requests == 1..(NumReq + 1)

\* Texts the human can paste into the dialog or the input box.
Payloads == {"", "reply"}

(* --------------------------- JavaScript values ------------------------- *)

Undefined == <<"undefined">>

Str(s) == <<"string", s>>

\* State of the promise created at line 117 while nobody has resolved it.
Pending == <<"pending">>

\* What the caller of createMessage / completePrompt has observed so far.
NoOutcome == <<"none">>

Returned(t) == <<"returned", t>>

Yielded(t) == <<"yielded", <<t>>>>

Thrown(msg) == <<"error", msg>>

NoMessageError == "No message to relay"

CancelledError == "Human relay operation cancelled"

ClipboardError == "clipboard write rejected"

UseInputBox == "Use Input Box"

\* `!response` at lines 48 and 88: undefined and the empty string are falsy.
Falsy(v) == v = Undefined \/ v = Str("")

InputUnchanged(input) == input

\* `input || undefined` at line 172.
InputOrUndefined(input) == IF Falsy(input) THEN Undefined ELSE input

PromiseResolveOverwrite(current, v) == v

\* A second resolve() of an already settled promise is ignored.
PromiseResolve(current, v) == IF current = Pending THEN v ELSE current

\* Date.now().toString() at line 119.
RequestIdOf(now) == ToString(now)

Ids == {RequestIdOf(t) : t \in 1..MaxClock}

(* ------------------------------ messages ------------------------------- *)

TextPart(t) == [type |-> "text", text |-> t]

ImagePart == [type |-> "image", text |-> "<image>"]

StringContent(s) == <<"string", s>>

ArrayContent(parts) == <<"array", parts>>

OtherContent == <<"other">>

Message(content) == [role |-> "user", content |-> content]

RECURSIVE JoinNewline(_)
\* Array.prototype.join("\n")
JoinNewline(texts) ==
    IF texts = <<>> THEN ""
    ELSE IF Len(texts) = 1 THEN Head(texts)
    ELSE Head(texts) \o "\n" \o JoinNewline(Tail(texts))

IsAnyPart(item) == TRUE

\* Line 103: the filter predicate item.type === "text".
IsTextPart(item) == item.type = "text"

MapText(items) == [i \in 1..Len(items) |-> IF items[i].type = "text" THEN items[i].text ELSE ""]

getMessageContent(message) ==
    IF message.content[1] = "string" THEN message.content[2]
    ELSE IF message.content[1] = "array"
         THEN JoinNewline(MapText(SelectSeq(message.content[2], IsTextPart)))
    ELSE ""

PromptTextAlwaysPrefixed(systemPrompt, messages) ==
    systemPrompt \o "\n\n" \o getMessageContent(messages[Len(messages)])

\* Lines 35-40 of createMessage.
PromptTextOf(systemPrompt, messages) ==
    IF Len(messages) = 1
    THEN systemPrompt \o "\n\n" \o getMessageContent(messages[Len(messages)])
    ELSE getMessageContent(messages[Len(messages)])

SystemPrompts == {"SYS"}

Conversations ==
    { <<>>,
      << Message(StringContent("hello")) >> }

Prompts == {"prompt"}

\* Longest conversation handed to createMessage in a run of ExtractSpec.
MaxMessages == 2

\* The inputs of ExtractSpec: every shape of message content the code tells apart.
ExtractSystemPrompts == {"SYS", "system"}

ExtractMessages ==
    { Message(StringContent("hello")),
      Message(ArrayContent(<<ImagePart, TextPart("A"), TextPart("B")>>)),
      Message(ArrayContent(<<TextPart("A"), ImagePart, TextPart("")>>)),
      Message(ArrayContent(<<ImagePart>>)),
      Message(OtherContent) }

ExtractConversations ==
    UNION {[1..n -> ExtractMessages] : n \in 0..MaxMessages}

(* ------------------------------- state --------------------------------- *)

VARIABLES
    clock,       \* latest reading of Date.now()
    panel,       \* getPanel() is defined
    callbacks,   \* host registry: request id -> request whose callback is registered (0: none)
    pc,          \* position of each relay call
    kind,        \* which entry point the call came through
    callArgs,    \* arguments the call was made with
    promptText,  \* prompt text of the call
    requestId,   \* id chosen by showHumanRelayDialog ("" before it ran)
    result,      \* state of the promise returned by showHumanRelayDialog
    outcome,     \* what the caller has received
    surface,     \* progress of the openInNewTab / setTimeout branch
    dialog,      \* webview dialog of the request
    advisory,    \* modal information message of the request
    inputBox,    \* input box of the request
    response,    \* argument the registered callback was invoked with
    input,       \* value the input box returned
    effects      \* host calls issued by the call, in order

vars == <<clock, panel, callbacks, pc, kind, callArgs, promptText, requestId, result, outcome,
          surface, dialog, advisory, inputBox, response, input, effects>>

NotYet == <<"not yet">>

\* Arguments of a call: createMessage(systemPrompt, messages) or
\* completePrompt(prompt); the fields the entry point does not take are empty.
NoArgs == [systemPrompt |-> "", messages |-> <<>>, prompt |-> ""]

CreateMessageArgs(systemPrompt, messages) ==
    [systemPrompt |-> systemPrompt, messages |-> messages, prompt |-> ""]

CompletePromptArgs(prompt) == [systemPrompt |-> "", messages |-> <<>>, prompt |-> prompt]

Init ==
    /\ clock = 1
    /\ panel \in BOOLEAN
    /\ callbacks = [id \in Ids |-> 0]
    /\ pc = [r \in Requests |-> "idle"]
    /\ kind = [r \in Requests |-> "none"]
    /\ callArgs = [r \in Requests |-> NoArgs]
    /\ promptText = [r \in Requests |-> ""]
    /\ requestId = [r \in Requests |-> ""]
    /\ result = [r \in Requests |-> Pending]
    /\ outcome = [r \in Requests |-> NoOutcome]
    /\ surface = [r \in Requests |-> "none"]
    /\ dialog = [r \in Requests |-> "none"]
    /\ advisory = [r \in Requests |-> "none"]
    /\ inputBox = [r \in Requests |-> "none"]
    /\ response = [r \in Requests |-> NotYet]
    /\ input = [r \in Requests |-> NotYet]
    /\ effects = [r \in Requests |-> <<>>]

(* ------------------------- host command registry ----------------------- *)

registerHumanRelayCallback(cbs, id, r) == [cbs EXCEPT ![id] = r]

unregisterHumanRelayCallback(cbs, id) == [cbs EXCEPT ![id] = 0]

\* The webview dialog is rendered only by an existing panel.
DialogAfterShow(panelExists) == IF panelExists THEN "visible" ELSE "none"

(* ------------------------------ actions -------------------------------- *)

\* Calls are numbered in the order in which they are made.
MayStart(r) == pc[r] = "idle" /\ \A q \in Requests : q < r => pc[q] # "idle"

EmptyConversationEffectsWrite == << <<"writeClipboard", "">> >>

\* Lines 30-32: the throw comes before any host call of line 43 and later.
EmptyConversationEffects == <<>>

\* createMessage up to the await of clipboard.writeText (lines 26-43).
createMessage(r, systemPrompt, messages) ==
    /\ MayStart(r)
    /\ kind' = [kind EXCEPT ![r] = "createMessage"]
    /\ callArgs' = [callArgs EXCEPT ![r] = CreateMessageArgs(systemPrompt, messages)]
    /\ IF Len(messages) = 0
       THEN /\ outcome' = [outcome EXCEPT ![r] = Thrown(NoMessageError)]
            /\ pc' = [pc EXCEPT ![r] = "done"]
            /\ effects' = [effects EXCEPT ![r] = EmptyConversationEffects]
            /\ UNCHANGED promptText
       ELSE /\ promptText' = [promptText EXCEPT ![r] = PromptTextOf(systemPrompt, messages)]
            /\ effects' = [effects EXCEPT ![r] = <<<<"writeClipboard", promptText'[r]>>>>]
            /\ pc' = [pc EXCEPT ![r] = "clipboard"]
            /\ UNCHANGED outcome
    /\ UNCHANGED <<clock, panel, callbacks, requestId, result, surface, dialog,
                   advisory, inputBox, response, input>>

\* completePrompt up to the await of clipboard.writeText (lines 81-83).
completePrompt(r, prompt) ==
    /\ MayStart(r)
    /\ kind' = [kind EXCEPT ![r] = "completePrompt"]
    /\ callArgs' = [callArgs EXCEPT ![r] = CompletePromptArgs(prompt)]
    /\ promptText' = [promptText EXCEPT ![r] = prompt]
    /\ effects' = [effects EXCEPT ![r] = <<<<"writeClipboard", prompt>>>>]
    /\ pc' = [pc EXCEPT ![r] = "clipboard"]
    /\ UNCHANGED <<clock, panel, callbacks, requestId, result, outcome, surface, dialog,
                   advisory, inputBox, response, input>>

SurfaceEffectsShowAtOnce(panelExists, id, text) ==
    IF panelExists THEN <<<<"showDialog", id, text>>>>
    ELSE << <<"createPanel">>, <<"showDialog", id, text>> >>

\* Lines 131-148: what the executor issues towards the panel.
SurfaceEffects(panelExists, id, text) ==
    IF panelExists THEN <<<<"showDialog", id, text>>>> ELSE <<<<"createPanel">>>>

AdvisoryOnlyWithPanel(panelExists) == IF panelExists THEN "open" ELSE "none"

\* Lines 151-159: the information message is shown by the executor itself.
AdvisoryAfterExecutor(panelExists) == "open"

ExecutorEffectsAdvisoryFirst(panelExists, id, text) ==
    (IF AdvisoryAfterExecutor(panelExists) = "open" THEN <<<<"advisory">>>> ELSE <<>>)
        \o <<<<"register", id>>>> \o SurfaceEffects(panelExists, id, text)

\* The executor of the promise in showHumanRelayDialog (lines 117-160).
ExecutorEffects(panelExists, id, text) ==
    <<<<"register", id>>>> \o SurfaceEffects(panelExists, id, text)
        \o (IF AdvisoryAfterExecutor(panelExists) = "open" THEN <<<<"advisory">>>> ELSE <<>>)

\* The clipboard write succeeded: the call goes on into showHumanRelayDialog
\* and runs the promise executor to its end (lines 46/86, 117-160).  Date.now()
\* reads now, which is never less than an earlier reading.
ClipboardWritten(r, now) ==
    /\ pc[r] = "clipboard"
    /\ now >= clock
    /\ clock' = now
    /\ LET id == RequestIdOf(now) IN
          /\ requestId' = [requestId EXCEPT ![r] = id]
          /\ callbacks' = registerHumanRelayCallback(callbacks, id, r)
          /\ surface' = [surface EXCEPT ![r] = IF panel THEN "none" ELSE "creating"]
          /\ dialog' = [dialog EXCEPT ![r] = IF panel THEN DialogAfterShow(panel) ELSE "none"]
          /\ advisory' = [advisory EXCEPT ![r] = AdvisoryAfterExecutor(panel)]
          /\ effects' = [effects EXCEPT ![r] = @ \o ExecutorEffects(panel, id, promptText[r])]
    /\ pc' = [pc EXCEPT ![r] = "waiting"]
    /\ UNCHANGED <<panel, kind, callArgs, promptText, result, outcome, inputBox, response, input>>

\* What the caller receives when the awaited clipboard write rejects (lines 43, 83).
AfterClipboardRejected == Thrown(ClipboardError)

\* The clipboard write rejected: the await at line 43 / 83 throws.
ClipboardRejected(r) ==
    /\ pc[r] = "clipboard"
    /\ outcome' = [outcome EXCEPT ![r] = AfterClipboardRejected]
    /\ pc' = [pc EXCEPT ![r] = "done"]
    /\ UNCHANGED <<clock, panel, callbacks, kind, callArgs, promptText, requestId, result, surface,
                   dialog, advisory, inputBox, response, input, effects>>

\* executeCommand("roo-cline.openInNewTab") resolved: the then-callback arms
\* the 500 ms timer (lines 133-140).
OpenInNewTabResolved(r) ==
    /\ surface[r] = "creating"
    /\ surface' = [surface EXCEPT ![r] = "grace"]
    /\ UNCHANGED <<clock, panel, callbacks, pc, kind, callArgs, promptText, requestId, result, outcome,
                   dialog, advisory, inputBox, response, input, effects>>

\* executeCommand("roo-cline.openInNewTab") rejected: the then-callback at
\* line 133 has no rejection handler, nothing more happens on this branch.
OpenInNewTabRejected(r) ==
    /\ surface[r] = "creating"
    /\ surface' = [surface EXCEPT ![r] = "failed"]
    /\ UNCHANGED <<clock, panel, callbacks, pc, kind, callArgs, promptText, requestId, result, outcome,
                   dialog, advisory, inputBox, response, input, effects>>

\* The host finishes building a panel that some call has asked for.
PanelCreated ==
    /\ ~panel
    /\ \E r \in Requests : surface[r] \in {"creating", "grace", "issued"}
    /\ panel' = TRUE
    /\ UNCHANGED <<clock, callbacks, pc, kind, callArgs, promptText, requestId, result, outcome,
                   surface, dialog, advisory, inputBox, response, input, effects>>

\* The setTimeout callback of lines 135-140 runs.
TimerFired(r) ==
    /\ surface[r] = "grace"
    /\ surface' = [surface EXCEPT ![r] = "issued"]
    /\ effects' = [effects EXCEPT ![r] = Append(@, <<"showDialog", requestId[r], promptText[r]>>)]
    /\ dialog' = [dialog EXCEPT ![r] = DialogAfterShow(panel)]
    /\ UNCHANGED <<clock, panel, callbacks, pc, kind, callArgs, promptText, requestId, result, outcome,
                   advisory, inputBox, response, input>>

FallbackEffectsInputFirst(id) == << <<"inputBox">>, <<"unregister", id>> >>

\* Lines 163-170: the host calls made when "Use Input Box" was selected.
FallbackEffects(id) == << <<"unregister", id>>, <<"inputBox">> >>

FallbackCallbacksKept(cbs, id) == cbs

\* Line 163: the registry after the selection of "Use Input Box".
FallbackCallbacks(cbs, id) == unregisterHumanRelayCallback(cbs, id)

\* The then-callback of showInformationMessage (lines 160-175).
AdvisorySelected(r, selection) ==
    /\ advisory[r] = "open"
    /\ IF selection = Str(UseInputBox)
       THEN /\ advisory' = [advisory EXCEPT ![r] = "fallback"]
            /\ callbacks' = FallbackCallbacks(callbacks, requestId[r])
            /\ inputBox' = [inputBox EXCEPT ![r] = "open"]
            /\ effects' = [effects EXCEPT ![r] = @ \o FallbackEffects(requestId[r])]
       ELSE /\ advisory' = [advisory EXCEPT ![r] = "dismissed"]
            /\ UNCHANGED <<callbacks, inputBox, effects>>
    /\ UNCHANGED <<clock, panel, pc, kind, callArgs, promptText, requestId, result, outcome,
                   surface, dialog, response, input>>

\* The then-callback of showInputBox (lines 171-173).
InputBoxReturned(r, v) ==
    /\ inputBox[r] = "open"
    /\ inputBox' = [inputBox EXCEPT ![r] = "closed"]
    /\ input' = [input EXCEPT ![r] = v]
    /\ result' = [result EXCEPT ![r] = PromiseResolve(@, InputOrUndefined(v))]
    /\ UNCHANGED <<clock, panel, callbacks, pc, kind, callArgs, promptText, requestId, outcome,
                   surface, dialog, advisory, response, effects>>

\* The callback registered at lines 125-127: resolve(response).
CallbackInvoked(current, v) == PromiseResolve(current, v)

\* The human answers (v a string) or cancels (v undefined) the webview dialog
\* of request r; the host hands v to the callback registered under the
\* dialog's request id, if any, and drops the registration.
DialogResponse(r, v) ==
    /\ dialog[r] = "visible"
    /\ dialog' = [dialog EXCEPT ![r] = "closed"]
    /\ LET id == requestId[r]
           q == callbacks[id]
       IN  IF q # 0
           THEN /\ response' = [response EXCEPT ![q] = v]
                /\ result' = [result EXCEPT ![q] = CallbackInvoked(@, v)]
                /\ callbacks' = unregisterHumanRelayCallback(callbacks, id)
           ELSE UNCHANGED <<response, result, callbacks>>
    /\ UNCHANGED <<clock, panel, pc, kind, callArgs, promptText, requestId, outcome,
                   surface, advisory, inputBox, input, effects>>

\* Lines 48-54 and 88-92: what the caller gets for the awaited value v.
AfterResponse(k, v) ==
    IF Falsy(v) THEN Thrown(CancelledError)
    ELSE IF k = "createMessage" THEN Yielded(v[2])
    ELSE Returned(v[2])

\* The await of showHumanRelayDialog at line 46 / 86 resumes.
Resume(r) ==
    /\ pc[r] = "waiting"
    /\ result[r] # Pending
    /\ outcome' = [outcome EXCEPT ![r] = AfterResponse(kind[r], result[r])]
    /\ pc' = [pc EXCEPT ![r] = "done"]
    /\ UNCHANGED <<clock, panel, callbacks, kind, callArgs, promptText, requestId, result,
                   surface, dialog, advisory, inputBox, response, input, effects>>

HumanValues == {Str(t) : t \in Payloads} \cup {Undefined}

Selections == {Str(UseInputBox), Undefined}

\* One step of the program, the host or the human, when the callers make the
\* calls numbered in Callers.
Step(Callers) ==
    \/ \E r \in Callers, sp \in SystemPrompts, ms \in Conversations : createMessage(r, sp, ms)
    \/ \E r \in Callers, p \in Prompts : completePrompt(r, p)
    \/ \E r \in Requests, now \in 1..MaxClock : ClipboardWritten(r, now)
    \/ \E r \in Requests : ClipboardRejected(r)
    \/ \E r \in Requests : OpenInNewTabResolved(r)
    \/ \E r \in Requests : OpenInNewTabRejected(r)
    \/ PanelCreated
    \/ \E r \in Requests : TimerFired(r)
    \/ \E r \in Requests, s \in Selections : AdvisorySelected(r, s)
    \/ \E r \in Requests, v \in HumanValues : InputBoxReturned(r, v)
    \/ \E r \in Requests, v \in HumanValues : DialogResponse(r, v)
    \/ \E r \in Requests : Resume(r)

Next == Step(1..NumReq)

Spec == Init /\ [][Next]_vars

\* As Next, with one more call, which may follow or overlap the others.
OverlapNext == Step(Requests)

OverlapSpec == Init /\ [][OverlapNext]_vars

\* createMessage alone, on inputs of every shape.
ExtractNext ==
    \E r \in 1..NumReq, sp \in ExtractSystemPrompts, ms \in ExtractConversations :
        createMessage(r, sp, ms)

ExtractSpec == Init /\ [][ExtractNext]_vars

TypeOK ==
    /\ clock \in 1..MaxClock
    /\ panel \in BOOLEAN
    /\ callbacks \in [Ids -> Requests \cup {0}]
    /\ \A r \in Requests :
          /\ pc[r] \in {"idle", "clipboard", "waiting", "done"}
          /\ kind[r] \in {"none", "createMessage", "completePrompt"}
          /\ requestId[r] \in Ids \cup {""}
          /\ result[r] \in {Pending} \cup HumanValues
          /\ surface[r] \in {"none", "creating", "failed", "grace", "issued"}
          /\ dialog[r] \in {"none", "visible", "closed"}
          /\ advisory[r] \in {"none", "open", "fallback", "dismissed"}
          /\ inputBox[r] \in {"none", "open", "closed"}
          /\ response[r] \in {NotYet} \cup HumanValues
          /\ input[r] \in {NotYet} \cup HumanValues

(* ------------------------------ properties ----------------------------- *)

Texts == {Str(t) : t \in Payloads}

NonEmptyTexts == {Str(t) : t \in Payloads \ {""}}

\* What a caller of entry point k gets when the relay produced the text t.
Delivered(k, t) == IF k = "createMessage" THEN Yielded(t) ELSE Returned(t)

\* Position of the first entry e in the sequence s (0 if absent).
FirstIndex(s, e) ==
    IF \E i \in 1..Len(s) : s[i] = e
    THEN CHOOSE i \in 1..Len(s) : s[i] = e /\ \A j \in 1..(i - 1) : s[j] # e
    ELSE 0

Others(r) == Requests \ {r}

\* C1: once the promise of a request has been settled, by the callback or by
\* the input box, its value never changes again, whatever resolution path
\* fires later, and what the caller has received never changes either.
C1_SettlementTerminal ==
    [][\A r \in Requests :
          /\ result[r] # Pending => result'[r] = result[r]
          /\ outcome[r] # NoOutcome => outcome'[r] = outcome[r]]_vars

\* Both resolution paths fired for one request, with different values.
C1_Witness ==
    \E r \in Requests :
        /\ response[r] = Str("reply")
        /\ input[r] = Undefined
        /\ result[r] = Str("reply")

\* C2: a call whose callback was invoked with the text t returns exactly t
\* (the empty text included), and one whose callback was invoked with no
\* payload fails as cancelled; a later input-box entry changes nothing.
C2_CallbackPayloadReturned ==
    \A r \in Requests :
        (pc[r] = "done" /\ response[r] # NotYet) =>
            outcome[r] = IF response[r] = Undefined
                         THEN Thrown(CancelledError)
                         ELSE Delivered(kind[r], response[r][2])

\* C3: the unregistration of the request's callback is issued before the
\* input box is shown.
C3_UnregisterBeforeInputBox ==
    \A r \in Requests :
        LET u == FirstIndex(effects[r], <<"unregister", requestId[r]>>)
            b == FirstIndex(effects[r], <<"inputBox">>)
        IN  /\ inputBox[r] # "none" => b # 0
            /\ b # 0 => (u # 0 /\ u < b)

\* "Use Input Box" was selected and the input box is on screen.
C3_Witness ==
    \E r \in Requests : advisory[r] = "fallback" /\ inputBox[r] = "open"

\* C4: after "Use Input Box" was selected for a pending request, its callback
\* is no longer registered and only the return of its input box settles it,
\* with the value the input box gave.
C4_OnlyInputBoxSettlesAfterFallback ==
    [][\A r \in Requests :
          (advisory[r] = "fallback" /\ result[r] = Pending) =>
              /\ callbacks[requestId[r]] # r
              /\ result'[r] # Pending =>
                    /\ inputBox[r] = "open"
                    /\ inputBox'[r] = "closed"
                    /\ response'[r] = NotYet]_vars

\* The only call of the run selected the fallback, then its webview dialog
\* was answered, found no callback and left the request pending.
C4_Witness ==
    \E r \in Requests :
        /\ \A q \in Others(r) : pc[q] = "idle"
        /\ advisory[r] = "fallback"
        /\ dialog[r] = "closed"
        /\ response[r] = NotYet
        /\ result[r] = Pending

\* C5: the input box of a still pending request settles it with the entered
\* text if that is non-empty, and as cancelled if it is empty or the box was
\* dismissed; the caller receives that text, or the cancellation error.
C5_FallbackEntry ==
    /\ [][\A r \in Requests :
            (inputBox[r] = "open" /\ inputBox'[r] = "closed" /\ result[r] = Pending) =>
                result'[r] = IF input'[r] \in NonEmptyTexts THEN input'[r] ELSE Undefined]_vars
    /\ [](\A r \in Requests :
            (pc[r] = "done" /\ input[r] # NotYet /\ response[r] = NotYet) =>
                outcome[r] = IF input[r] \in NonEmptyTexts
                             THEN Delivered(kind[r], input[r][2])
                             ELSE Thrown(CancelledError))

\* An empty entry in the input box ended a call with the cancellation error.
C5_Witness ==
    \E r \in Requests :
        /\ input[r] = Str("")
        /\ response[r] = NotYet
        /\ result[r] = Undefined
        /\ outcome[r] = Thrown(CancelledError)

\* C6: a call whose relay result is Cancelled fails with the cancellation
\* error; one whose result is Text(t) returns t (completePrompt) or yields
\* the single chunk t (createMessage).
C6_ResultDeterminesOutcome ==
    \A r \in Requests :
        (pc[r] = "done" /\ result[r] # Pending) =>
            outcome[r] = IF result[r] = Undefined
                         THEN Thrown(CancelledError)
                         ELSE Delivered(kind[r], result[r][2])

\* C7: a failed clipboard write is swallowed: a call that issued the write
\* never ends without having registered its callback and shown the
\* information message, and never hands the clipboard failure to its caller.
C7_ClipboardFailureSwallowed ==
    \A r \in Requests :
        (pc[r] = "done" /\ effects[r] # <<>>) =>
            /\ requestId[r] # ""
            /\ advisory[r] # "none"
            /\ outcome[r] # Thrown(ClipboardError)

\* C8: no two relay requests ever get the same identifier.
C8_UniqueRequestIds ==
    \A r \in Requests : \A q \in Others(r) :
        (requestId[r] # "" /\ requestId[q] # "") => requestId[r] # requestId[q]

\* The executor found no panel and asked for one.
NoPanelAtCall(r) == surface[r] # "none"

\* C9: when showHumanRelayDialog finds no panel, the information message is
\* shown whatever becomes of the panel creation; a creation that fails or
\* never completes neither settles the request nor reaches the caller, and
\* the fallback stays available to settle it.
C9_AdvisoryWithoutPanel ==
    /\ [](\A r \in Requests :
            NoPanelAtCall(r) =>
                /\ FirstIndex(effects[r], <<"advisory">>) # 0
                /\ advisory[r] # "none"
                /\ advisory[r] = "open" => ENABLED AdvisorySelected(r, Str(UseInputBox))
                /\ inputBox[r] = "open" => ENABLED InputBoxReturned(r, Str("reply"))
                /\ outcome[r] \in {NoOutcome, Thrown(CancelledError)}
                                     \cup {Delivered(kind[r], t) : t \in Payloads}
                /\ result[r] = Pending => (pc[r] = "waiting" /\ outcome[r] = NoOutcome))
    /\ [][\A r \in Requests :
            (surface[r] = "creating" /\ surface'[r] = "failed") =>
                (result'[r] = result[r] /\ outcome'[r] = outcome[r])]_vars

\* No panel ever existed, its creation failed, and the input box settled the
\* request with the entered text, which the caller received.
C9_Witness ==
    \E r \in Requests :
        /\ ~panel
        /\ surface[r] = "failed"
        /\ dialog[r] = "none"
        /\ input[r] = Str("reply")
        /\ result[r] = Str("reply")
        /\ outcome[r] = Delivered(kind[r], "reply")

\* The human dismissed the information message without choosing the input
\* box and gave no text through the webview dialog.
DeclinedAll(r) ==
    /\ advisory[r] = "dismissed"
    /\ response[r] \notin Texts

\* C10: when the human has declined every path offered and nothing is left to
\* happen, the request has settled as cancelled and the caller has received
\* the cancellation error.
C10_DeclinedEndsCancelled ==
    \A r \in Requests :
        (DeclinedAll(r) /\ ~ENABLED Next) =>
            (result[r] = Undefined /\ outcome[r] = Thrown(CancelledError))

\* Number of host calls of one kind in the log s.
Count(s, tag) == Cardinality({i \in 1..Len(s) : s[i][1] = tag})

\* Position of the first host call of one kind in the log s (0 if absent).
IndexOfTag(s, tag) ==
    IF \E i \in 1..Len(s) : s[i][1] = tag
    THEN CHOOSE i \in 1..Len(s) : s[i][1] = tag /\ \A j \in 1..(i - 1) : s[j][1] # tag
    ELSE 0

\* The executor found a panel.
PanelAtCall(r) == requestId[r] # "" /\ surface[r] = "none"

\* C11: with a panel at request time the dialog is shown at once, right after
\* the registration, and no panel is asked for; without one the panel is asked
\* for first, and the dialog is shown only once that request has completed
\* and the grace delay has elapsed, never before.
C11_SurfaceOrdering ==
    /\ [](\A r \in Requests :
            /\ PanelAtCall(r) =>
                  /\ IndexOfTag(effects[r], "showDialog") = IndexOfTag(effects[r], "register") + 1
                  /\ IndexOfTag(effects[r], "register") # 0
                  /\ Count(effects[r], "createPanel") = 0
            /\ NoPanelAtCall(r) =>
                  /\ IndexOfTag(effects[r], "createPanel") # 0
                  /\ surface[r] \in {"creating", "failed", "grace"} =>
                        Count(effects[r], "showDialog") = 0
                  /\ Count(effects[r], "showDialog") # 0 =>
                        /\ surface[r] = "issued"
                        /\ IndexOfTag(effects[r], "createPanel")
                              < IndexOfTag(effects[r], "showDialog"))
    /\ [][\A r \in Requests :
            /\ surface'[r] = "grace" => surface[r] \in {"creating", "grace"}
            /\ Count(effects'[r], "showDialog") > Count(effects[r], "showDialog") =>
                  \/ pc[r] = "clipboard" /\ panel
                  \/ surface[r] = "grace" /\ surface'[r] = "issued"]_vars

\* A panel was asked for, its request completed, the delay elapsed and the
\* dialog was shown on the new panel.
C11_Witness ==
    \E r \in Requests :
        /\ surface[r] = "issued"
        /\ dialog[r] = "visible"
        /\ IndexOfTag(effects[r], "createPanel") < IndexOfTag(effects[r], "showDialog")

\* C12: a finished relay call has made exactly one clipboard write, at most
\* one request for a panel (none when one existed), exactly one registration,
\* at most one showRelayDialog, and one unregistration if the fallback was
\* taken and none otherwise.
C12_EffectCounts ==
    \A r \in Requests :
        (pc[r] = "done" /\ effects[r] # <<>>) =>
            /\ Count(effects[r], "writeClipboard") = 1
            /\ Count(effects[r], "createPanel") <= 1
            /\ PanelAtCall(r) => Count(effects[r], "createPanel") = 0
            /\ Count(effects[r], "register") = 1
            /\ Count(effects[r], "showDialog") <= 1
            /\ Count(effects[r], "unregister") = IF advisory[r] = "fallback" THEN 1 ELSE 0

\* C13 as claimed: once the callback has settled a request, selecting "Use
\* Input Box" in the information message that is still open issues no
\* unregistration, shows no input box and leaves the result unchanged.
C13_LateFallbackNoEffect ==
    [][\A r \in Requests :
          (response[r] # NotYet /\ advisory[r] = "open" /\ advisory'[r] # "open") =>
              /\ effects'[r] = effects[r]
              /\ inputBox'[r] = inputBox[r]
              /\ result'[r] = result[r]]_vars

\* C13 as amended: once the callback has settled a request, selecting "Use
\* Input Box" still issues the unregistration (which finds no listener of
\* this request) and shows the input box, but neither that nor anything
\* entered there changes the result or what the caller receives.
C13_LateFallbackKeepsResult ==
    [][\A r \in Requests :
          response[r] # NotYet =>
              /\ result[r] = response[r]
              /\ result'[r] = result[r]
              /\ outcome[r] # NoOutcome => outcome'[r] = outcome[r]
              /\ callbacks[requestId[r]] # r
              /\ (advisory[r] = "open" /\ advisory'[r] = "fallback") =>
                    /\ inputBox'[r] = "open"
                    /\ effects'[r] = effects[r] \o
                          << <<"unregister", requestId[r]>>, <<"inputBox">> >>]_vars

\* The callback settled the request with a text, then "Use Input Box" was
\* selected and an empty entry made, and the result is still that text.
C13_Witness ==
    \E r \in Requests :
        /\ response[r] = Str("reply")
        /\ advisory[r] = "fallback"
        /\ inputBox[r] = "closed"
        /\ input[r] = Str("")
        /\ result[r] = Str("reply")

\* The createMessage calls made so far with a conversation of n messages.
CreateMessageCalls(n) ==
    {r \in Requests : /\ pc[r] # "idle"
                      /\ kind[r] = "createMessage"
                      /\ Len(callArgs[r].messages) = n}

LastMessage(r) == callArgs[r].messages[Len(callArgs[r].messages)]

\* C14: for a conversation of one message the relayed prompt text, which is
\* the text written to the clipboard, is the system prompt, "\n\n" and the
\* content of that message; for a longer conversation it is the content of
\* the last message alone, whatever the system prompt and earlier messages.
C14_PromptDerivation ==
    /\ \A r \in CreateMessageCalls(1) :
          /\ promptText[r] = callArgs[r].systemPrompt \o "\n\n"
                                \o getMessageContent(callArgs[r].messages[1])
          /\ effects[r][1] = <<"writeClipboard", promptText[r]>>
    /\ \A n \in 2..(MaxMessages + 1) : \A r \in CreateMessageCalls(n) :
          /\ promptText[r] = getMessageContent(LastMessage(r))
          /\ effects[r][1] = <<"writeClipboard", promptText[r]>>

\* A call with two messages, whose first message has text parts of its own,
\* relays the text of the last message only.
C14_Witness ==
    \E r \in CreateMessageCalls(2) :
        /\ callArgs[r].systemPrompt = "system"
        /\ callArgs[r].messages[1] =
              Message(ArrayContent(<<ImagePart, TextPart("A"), TextPart("B")>>))
        /\ callArgs[r].messages[2] = Message(StringContent("hello"))
        /\ promptText[r] = "hello"

\* C15: createMessage on an empty conversation throws "No message to relay"
\* at once and touches nothing outside: no clipboard write, no registration,
\* no panel, no dialog, no information message.
C15_EmptyConversationFails ==
    /\ [](\A r \in CreateMessageCalls(0) :
            /\ pc[r] = "done"
            /\ outcome[r] = Thrown(NoMessageError)
            /\ effects[r] = <<>>
            /\ requestId[r] = ""
            /\ result[r] = Pending
            /\ surface[r] = "none"
            /\ dialog[r] = "none"
            /\ advisory[r] = "none"
            /\ inputBox[r] = "none")
    /\ [][\A r \in Requests :
            (pc[r] = "idle" /\ pc'[r] # "idle" /\ kind'[r] = "createMessage"
                /\ callArgs'[r].messages = <<>>) =>
                UNCHANGED <<clock, panel, callbacks>>]_vars

\* createMessage was called with the empty conversation and has thrown.
C15_Witness ==
    \E r \in CreateMessageCalls(0) :
        /\ callArgs[r].systemPrompt = "SYS"
        /\ outcome[r] = Thrown(NoMessageError)
        /\ effects[r] = <<>>

RECURSIVE TextsOfTextParts(_)
\* The texts of the text-typed parts, in their order.
TextsOfTextParts(parts) ==
    IF parts = <<>> THEN <<>>
    ELSE IF Head(parts).type = "text"
         THEN <<Head(parts).text>> \o TextsOfTextParts(Tail(parts))
         ELSE TextsOfTextParts(Tail(parts))

RECURSIVE SeparatedBy(_, _)
\* The texts one after another with sep between each two neighbours.
SeparatedBy(texts, sep) ==
    IF Len(texts) = 0 THEN ""
    ELSE IF Len(texts) = 1 THEN texts[1]
    ELSE SeparatedBy(SubSeq(texts, 1, Len(texts) - 1), sep) \o sep \o texts[Len(texts)]

ContentAsClaimed(message) ==
    CASE message.content[1] = "string" -> message.content[2]
      [] message.content[1] = "array" ->
            SeparatedBy(TextsOfTextParts(message.content[2]), "\n")
      [] OTHER -> ""

\* C16: the content of a message is its text when the content is a string;
\* the texts of its text parts, in order, joined by one newline, when it is
\* an array of parts ([image, A, B] gives "A\nB", no text part gives "");
\* and "" for any other shape.  Read off the prompt of calls with more than
\* one message, which is the content of the last message.
C16_ContentOf ==
    \A n \in 2..(MaxMessages + 1) : \A r \in CreateMessageCalls(n) :
        LET m == LastMessage(r) IN
        /\ promptText[r] = ContentAsClaimed(m)
        /\ m = Message(StringContent("hello")) => promptText[r] = "hello"
        /\ m = Message(ArrayContent(<<ImagePart, TextPart("A"), TextPart("B")>>)) =>
              promptText[r] = "A\nB"
        /\ m = Message(ArrayContent(<<TextPart("A"), ImagePart, TextPart("")>>)) =>
              promptText[r] = "A\n"
        /\ m = Message(ArrayContent(<<ImagePart>>)) => promptText[r] = ""
        /\ m = Message(OtherContent) => promptText[r] = ""

\* The last message of a call is [image, A, B] and "A\nB" was relayed.
C16_Witness ==
    \E r \in CreateMessageCalls(2) :
        /\ LastMessage(r) = Message(ArrayContent(<<ImagePart, TextPart("A"), TextPart("B")>>))
        /\ promptText[r] = "A\nB"
        /\ effects[r] = << <<"writeClipboard", "A\nB">> >>

\* C17: two overlapping calls each hold an identifier of their own, and a
\* webview response or a "Use Input Box" selection made for one of them never
\* settles the other, replaces or removes the other's registered callback, or
\* leaves the other unable to be settled through its callback.
C17_OverlappingCallsIndependent ==
    /\ [](\A r \in Requests :
            /\ requestId[r] # "" => \A q \in Others(r) : requestId[q] # requestId[r]
            /\ (/\ requestId[r] # ""
                /\ result[r] = Pending
                /\ response[r] = NotYet
                /\ advisory[r] # "fallback") => callbacks[requestId[r]] = r)
    /\ [][\A r \in Requests : \A q \in Others(r) :
            /\ (dialog[r] = "visible" /\ dialog'[r] = "closed") =>
                  (result'[q] = result[q] /\ response'[q] = response[q])
            /\ (advisory[r] = "open" /\ advisory'[r] = "fallback"
                    /\ requestId[q] # "" /\ callbacks[requestId[q]] = q) =>
                  callbacks'[requestId[q]] = q]_vars

\* The panel asked for by the executor is not there yet: its creation or
\* the 500 ms timer is still outstanding.
SurfaceOutstanding(r) == surface[r] \in {"creating", "grace"}

\* C18: when no panel exists the information message is shown before the
\* timer has run and before showHumanRelayDialog is executed, and while the
\* panel creation or the timer is outstanding "Use Input Box" can be selected
\* and the input box can settle the request.
C18_AdvisoryNotGated ==
    /\ [](\A r \in Requests :
            /\ NoPanelAtCall(r) =>
                  /\ IndexOfTag(effects[r], "advisory") # 0
                  /\ IndexOfTag(effects[r], "showDialog") # 0 =>
                        IndexOfTag(effects[r], "advisory") < IndexOfTag(effects[r], "showDialog")
            /\ SurfaceOutstanding(r) =>
                  /\ advisory[r] # "none"
                  /\ Count(effects[r], "showDialog") = 0
                  /\ advisory[r] = "open" => ENABLED AdvisorySelected(r, Str(UseInputBox))
                  /\ inputBox[r] = "open" => ENABLED InputBoxReturned(r, Str("reply")))
    /\ [][\A r \in Requests :
            (/\ SurfaceOutstanding(r)
             /\ result[r] = Pending
             /\ inputBox[r] = "open" /\ inputBox'[r] = "closed") =>
                /\ result'[r] = InputOrUndefined(input'[r])
                /\ result'[r] # Pending
                /\ surface'[r] = surface[r]]_vars

\* The input box has settled the request with a text while the timer of the
\* new panel has not yet run and no dialog has been asked for.
C18_Witness ==
    \E r \in Requests :
        /\ surface[r] = "grace"
        /\ Count(effects[r], "showDialog") = 0
        /\ input[r] = Str("reply")
        /\ result[r] = Str("reply")

\* C19: showHumanRelayDialog is executed only for a request that is pending
\* and whose callback is registered; once the request is settled or "Use
\* Input Box" has unregistered its callback, the command is not executed.
C19_ShowOnlyWhilePendingAndRegistered ==
    [][\A r \in Requests :
          Count(effects'[r], "showDialog") > Count(effects[r], "showDialog") =>
              /\ result'[r] = Pending
              /\ callbacks'[requestId'[r]] = r]_vars

\* C20: within one call the registration comes before showHumanRelayDialog
\* and before the information message; registration, showHumanRelayDialog
\* and unregistration all carry the request id of the call; and the text
\* given to showHumanRelayDialog is the text written to the clipboard.
C20_ExecutorOrderAndArguments ==
    \A r \in Requests :
        LET e == effects[r] IN
        /\ IndexOfTag(e, "showDialog") # 0 =>
              (0 < IndexOfTag(e, "register") /\ IndexOfTag(e, "register") < IndexOfTag(e, "showDialog"))
        /\ IndexOfTag(e, "advisory") # 0 =>
              (0 < IndexOfTag(e, "register") /\ IndexOfTag(e, "register") < IndexOfTag(e, "advisory"))
        /\ \A i \in 1..Len(e) :
              /\ e[i][1] \in {"register", "showDialog", "unregister"} =>
                    (requestId[r] # "" /\ e[i][2] = requestId[r])
              /\ e[i][1] = "showDialog" =>
                    (e[1] = <<"writeClipboard", e[i][3]>> /\ e[i][3] = promptText[r])

\* One call has registered, had its dialog shown with the clipboard text
\* and, after "Use Input Box", unregistered, all under its one id.
C20_Witness ==
    \E r \in Requests :
        /\ promptText[r] = "SYS\n\nhello"
        /\ IndexOfTag(effects[r], "register") # 0
        /\ IndexOfTag(effects[r], "showDialog") # 0
        /\ IndexOfTag(effects[r], "unregister") # 0
        /\ effects[r][IndexOfTag(effects[r], "showDialog")] =
              <<"showDialog", requestId[r], "SYS\n\nhello">>

====
